---- MODULE Spec2Model ----
(***************************************************************************)
(* The resilient collection engine of oss-transparency-python:             *)
(*   src/src/common.py          TokenRotator, http_get, http_graphql       *)
(*   src/src/github_collect.py  checkpoint helpers, collect_one_repo, main *)
(*                                                                         *)
(* One process (main) submits one future per remaining repository to a     *)
(* ThreadPoolExecutor; each worker thread runs collect_one_repo, which     *)
(* calls http_graphql (retried by tenacity), the contributors REST fetch   *)
(* and append_checkpoint.  The checkpoint file survives the process; a     *)
(* crash ends the process and a later invocation of main resumes from it.  *)
(***************************************************************************)
EXTENDS Integers, Sequences, FiniteSets, TLC

\* ------------------------------------------------------------------ bounds
NumUnits == 2          \* repositories in the master list
NumTokens == 2         \* GITHUB_TOKEN_PAT* variables that are set
MaxRuns == 3           \* invocations of main over one checkpoint file
MaxTime == 3           \* the clock stops advancing here
MaxThreads == 2        \* github.max_workers of the settings file
MaxStamp == 2          \* the latest timestamp of a pull request or an issue

\* ------------------------------------------------------- program constants
DefaultQuota == 5000       \* _TokenState.remaining, and the assumed reset value
MaxAttempts == 6           \* stop_after_attempt(6)
DefaultRetryAfter == 60    \* r.headers.get("Retry-After", 60)
RateLimitCooldown == 30    \* time.sleep(30)
GetWaitMin == 1            \* http_get: wait_exponential(min=1)
GetWaitMax == 60           \* http_get: wait_exponential(max=60)
GqlWaitMin == 2            \* http_graphql: wait_exponential(min=2)
GqlWaitMax == 120          \* http_graphql: wait_exponential(max=120)
NumEnvKeys == 5            \* GITHUB_TOKEN_PAT, GITHUB_TOKEN_PAT_2 .. GITHUB_TOKEN_PAT_5

Units == 1..NumUnits
Threads == 1..MaxThreads
TokenIds == 1..NumTokens

Max2(a, b) == IF a >= b THEN a ELSE b
Min2(a, b) == IF a <= b THEN a ELSE b

RECURSIVE Pow2(_)
Pow2(n) == IF n <= 0 THEN 1 ELSE 2 * Pow2(n - 1)

\* ------------------------------------------------------------- responses
\* A response of the remote API, as far as the code reads it: the status, the
\* Retry-After header, the X-RateLimit-* headers and the shape of the body.
\*   body "repo"             data.repository present, neither archived nor fork
\*   body "archived"/"fork"  data.repository present with isArchived / isFork
\*   body "not_found"        errors ("Could not resolve ...") and data.repository null
\*   body "errors"           errors (something else) and no data
\*   body "rate_limit"       errors with the message "API rate limit exceeded"
\*   body "RATE_LIMIT"       errors with the message "API Rate Limit Exceeded"
\*   body "list"             the contributors list (REST)
\*   body "none"             a body the code does not read (non-2xx)
Response(status, body, has_retry_after, retry_after, has_remaining, remaining, has_reset, reset) ==
    [status |-> status, body |-> body,
     has_retry_after |-> has_retry_after, retry_after |-> retry_after,
     has_remaining |-> has_remaining, remaining |-> remaining,
     has_reset |-> has_reset, reset |-> reset]

\* A response that carries no Retry-After and no X-RateLimit-* header.
Plain(status, body) == Response(status, body, FALSE, 0, FALSE, 0, FALSE, 0)

\* What a repository's remote answers on every request, one name per case.
Scenarios == {"ok", "ok_norest", "archived", "fork", "not_found", "errors", "http500", "http401"}

GqlOf(s) ==
    CASE s = "ok" -> Plain(200, "repo")
      [] s = "ok_norest" -> Plain(200, "repo")
      [] s = "archived" -> Plain(200, "archived")
      [] s = "fork" -> Plain(200, "fork")
      [] s = "not_found" -> Plain(200, "not_found")
      [] s = "errors" -> Plain(200, "errors")
      [] s = "http500" -> Plain(500, "none")
      [] OTHER -> Plain(401, "none")

RestOf(s) == IF s = "ok_norest" THEN Plain(500, "none") ELSE Plain(200, "list")

\* ------------------------------------------------------- checkpoint file
\* The file is a sequence of bytes; the model keeps it as the sequence of its
\* newline-terminated lines (file) and the bytes after the last newline (tail).
\* A line is the sequence of the pieces written into it: each piece is the JSON
\* text of one record, whole or cut short by a crash.
Piece(record, whole) == [rec |-> record, whole |-> whole]

\* for line in f: the terminated lines, then the unterminated rest if any.
Lines(f, t) == IF t = <<>> THEN f ELSE Append(f, t)

\* A parser that takes a record cut short for a record.
WellFormed_lenient(line) == Len(line) = 1

\* json.loads(line) succeeds exactly on a line that is one whole record.
WellFormed(line) == Len(line) = 1 /\ line[1].whole

\* A load_checkpoint that leaves the errored repositories to be retried.
load_checkpoint_retry_errors(f, t) ==
    LET ls == Lines(f, t)
    IN  {ls[i][1].rec.repo_full_name :
            i \in {j \in DOMAIN ls : WellFormed(ls[j]) /\ "error" \notin DOMAIN ls[j][1].rec}}

load_checkpoint(f, t) ==
    LET ls == Lines(f, t)
    IN  {ls[i][1].rec.repo_full_name : i \in {j \in DOMAIN ls : WellFormed(ls[j])}}

RECURSIVE ParsedFrom(_, _)
ParsedFrom(ls, i) ==
    IF i > Len(ls) THEN <<>>
    ELSE IF WellFormed(ls[i]) THEN <<ls[i][1].rec>> \o ParsedFrom(ls, i + 1)
    ELSE ParsedFrom(ls, i + 1)

load_checkpoint_data(f, t) == ParsedFrom(Lines(f, t), 1)

\* An append_checkpoint that opens the file with "w".
WriteLine_truncating(f, t, record) == <<<<Piece(record, TRUE)>>>>

\* open(path, "a") ... f.write(json.dumps(record) + "\n"): the bytes go after
\* whatever the file ends with, and the newline ends that line.
WriteLine(f, t, record) == Append(f, Append(t, Piece(record, TRUE)))

\* ------------------------------------------------------------ extraction
\* The timestamps of the pull request and of the bug issue that the remote
\* returns for a repository, in seconds; a timestamp is a sequence that is
\* empty when the field is null (or empty) and holds the value otherwise.
VARIABLE stamps

Timestamps == {<<>>} \cup {<<t>> : t \in 1..MaxStamp}
StampFields == {"pr_created", "pr_merged", "first_review", "bug_created", "bug_closed"}

\* The timestamps of the runs that do not vary them: a merged, reviewed pull
\* request and an open issue.
FixedStamps ==
    [pr_created |-> <<1>>, pr_merged |-> <<2>>, first_review |-> <<2>>,
     bug_created |-> <<1>>, bug_closed |-> <<>>]

extract_repo_meta(body, repo) ==
    [repo_full_name |-> repo, archived |-> body = "archived", fork |-> body = "fork"]

extract_pull_requests(body, repo) ==
    IF body = "repo"
    THEN <<[repo_full_name |-> repo, pr_number |-> 1,
            pr_created_at |-> stamps.pr_created,
            pr_merged_at |-> stamps.pr_merged,
            first_review_at |-> stamps.first_review]>>
    ELSE <<>>

\* A duration that puts zero where an input is missing.
Elapsed_zero_default(a, b, unit) ==
    IF a = <<>> \/ b = <<>> THEN <<[num |-> 0, den |-> unit]>>
    ELSE <<[num |-> b[1] - a[1], den |-> unit]>>

\* (isoparse(b) - isoparse(a)).total_seconds() / unit when both are given, else
\* None: the quotient is kept as numerator and denominator.
Elapsed(a, b, unit) ==
    IF a = <<>> \/ b = <<>> THEN <<>>
    ELSE <<[num |-> b[1] - a[1], den |-> unit]>>

\* extract_bug_issues, lines 172-176.
mttr_days(created, closed) == Elapsed(created, closed, 86400)

\* collect_one_repo, lines 255-258.
hours(a, b) == Elapsed(a, b, 3600)

extract_bug_issues(body, repo) ==
    IF body = "repo"
    THEN <<[repo_full_name |-> repo, issue_number |-> 1,
            created_at |-> stamps.bug_created,
            closed_at |-> stamps.bug_closed,
            mttr_days |-> mttr_days(stamps.bug_created, stamps.bug_closed)]>>
    ELSE <<>>

\* collect_one_repo, lines 260-262: the latency fields of every pull request.
latency_fields(prs) ==
    [i \in DOMAIN prs |->
        [repo_full_name |-> prs[i].repo_full_name, pr_number |-> prs[i].pr_number,
         pr_created_at |-> prs[i].pr_created_at,
         pr_merged_at |-> prs[i].pr_merged_at,
         first_review_at |-> prs[i].first_review_at,
         latency_first_review_hours |-> hours(prs[i].pr_created_at, prs[i].first_review_at),
         latency_merge_hours |-> hours(prs[i].pr_created_at, prs[i].pr_merged_at)]]

contributor_rows(repo) == <<[repo_full_name |-> repo, contributor_login |-> "c1"]>>

NoneVal == [none |-> TRUE]
Truthy(v) == "none" \notin DOMAIN v

ErrorRecord(repo, detail) == [repo_full_name |-> repo, error |-> detail]
SkipRecord(repo) == [repo_full_name |-> repo, skipped |-> "archived_or_fork"]
DoneRecord(repo, body, contribs) ==
    [repo_full_name |-> repo, meta |-> extract_repo_meta(body, repo),
     prs |-> extract_pull_requests(body, repo),
     bugs |-> extract_bug_issues(body, repo), contribs |-> contribs]

\* -------------------------------------------------------------- rebuild
\* A rebuild that leaves the records with an error out of the metadata.
RECURSIVE RebuildMeta_drops_errors(_, _)
RebuildMeta_drops_errors(recs, i) ==
    IF i > Len(recs) THEN <<>>
    ELSE (IF "meta" \in DOMAIN recs[i] THEN <<recs[i].meta>> ELSE <<>>)
         \o RebuildMeta_drops_errors(recs, i + 1)

RECURSIVE RebuildMeta(_, _)
RebuildMeta(recs, i) ==
    IF i > Len(recs) THEN <<>>
    ELSE LET rec == recs[i]
             row == IF "error" \in DOMAIN rec /\ "meta" \notin DOMAIN rec
                    THEN <<[repo_full_name |-> rec.repo_full_name, error |-> rec.error]>>
                    ELSE IF "skipped" \in DOMAIN rec THEN <<>>
                    ELSE IF "meta" \in DOMAIN rec THEN <<rec.meta>>
                    ELSE <<>>
         IN  row \o RebuildMeta(recs, i + 1)

\* The child rows of one record, for the table named by key.
ChildRows(rec, key) ==
    IF "error" \in DOMAIN rec /\ "meta" \notin DOMAIN rec THEN <<>>
    ELSE IF "skipped" \in DOMAIN rec THEN <<>>
    ELSE IF "meta" \in DOMAIN rec
         THEN CASE key = "prs" -> rec.prs
                [] key = "bugs" -> rec.bugs
                [] OTHER -> rec.contribs
    ELSE <<>>

RECURSIVE RebuildChildren(_, _, _)
RebuildChildren(recs, key, i) ==
    IF i > Len(recs) THEN <<>>
    ELSE ChildRows(recs[i], key) \o RebuildChildren(recs, key, i + 1)

\* -------------------------------------------------------- TokenRotator
\* The environment: for each of the GITHUB_TOKEN_PAT* names in the order
\* __init__ reads them, the secret it is set to (one of TokenIds), or 0 when
\* the variable is unset or blank.
VARIABLE env_tokens

EnvKeys == 1..NumEnvKeys

\* The environment of the runs that do not vary it: the first NumTokens names
\* are set, each to a secret of its own.
FixedEnv == [k \in EnvKeys |-> IF k <= NumTokens THEN k ELSE 0]

\* The values of the names that are set, in the order of the names.
ConfiguredSecrets == SelectSeq([k \in EnvKeys |-> env_tokens[k]], LAMBDA v : v # 0)

\* _TokenState
TokenState(token, remaining, reset_at) ==
    [token |-> token, remaining |-> remaining, reset_at |-> reset_at]

\* A constructor that reads GITHUB_TOKEN_PAT only.
InitialTokens_first_key_only ==
    IF env_tokens[1] # 0 THEN <<TokenState(env_tokens[1], DefaultQuota, 0)>> ELSE <<>>

\* TokenRotator.__init__: one state per configured secret; none (and no
\* rotator) when no name is set.
InitialTokens ==
    [i \in 1..Len(ConfiguredSecrets) |-> TokenState(ConfiguredSecrets[i], DefaultQuota, 0)]

\* get_token, the refresh loop: a token whose reset window has passed is
\* assumed to be full again.
Refresh(toks, t) ==
    [i \in DOMAIN toks |->
        IF toks[i].remaining <= 0 /\ t >= toks[i].reset_at
        THEN TokenState(toks[i].token, DefaultQuota, toks[i].reset_at)
        ELSE toks[i]]

\* A selection that takes the last of the tokens with the largest quota.
Best_last(toks) ==
    CHOOSE i \in DOMAIN toks :
        /\ \A j \in DOMAIN toks : toks[j].remaining <= toks[i].remaining
        /\ \A j \in DOMAIN toks : j > i => toks[j].remaining < toks[i].remaining

\* max(self._tokens, key=lambda t: t.remaining): the first one of the largest.
Best(toks) ==
    CHOOSE i \in DOMAIN toks :
        /\ \A j \in DOMAIN toks : toks[j].remaining <= toks[i].remaining
        /\ \A j \in DOMAIN toks : j < i => toks[j].remaining < toks[i].remaining

\* min(ts.reset_at for ts in self._tokens)
Earliest(toks) ==
    CHOOSE x \in {toks[i].reset_at : i \in DOMAIN toks} :
        \A i \in DOMAIN toks : x <= toks[i].reset_at

\* wait_sec = max(0, earliest - now) + 1
WaitSec(toks, t) == Max2(0, Earliest(toks) - t) + 1

\* get_token after the sleep: every token is assumed full, the first is handed out.
ResetAll(toks) ==
    [i \in DOMAIN toks |-> TokenState(toks[i].token, DefaultQuota, toks[i].reset_at)]
AfterSleepToken == 1

\* An update_limits that writes the reported quota into every token.
update_limits_all(toks, token, r) ==
    IF ~r.has_remaining THEN toks
    ELSE [i \in DOMAIN toks |->
            TokenState(toks[i].token, r.remaining,
                       IF r.has_reset THEN r.reset ELSE toks[i].reset_at)]

\* update_limits(token, response): the first state with this secret is
\* updated, none when no state has it.
update_limits(toks, token, r) ==
    IF ~r.has_remaining THEN toks
    ELSE [i \in DOMAIN toks |->
            IF toks[i].token = token /\ \A j \in DOMAIN toks : j < i => toks[j].token # token
            THEN TokenState(token, r.remaining,
                            IF r.has_reset THEN r.reset ELSE toks[i].reset_at)
            ELSE toks[i]]

\* ------------------------------------------------------------ call layer
\* A wait_exponential with a larger multiplier and no upper clamp.
wait_exponential_unclamped(lo, hi, n) == Max2(lo, 8 * Pow2(n - 1))

\* tenacity's wait_exponential(multiplier=1, min=lo, max=hi) before the attempt
\* that follows attempt number n: multiplier * 2^(n-1), clamped to [lo, hi].
wait_exponential(lo, hi, n) == Max2(Max2(0, lo), Min2(Pow2(n - 1), hi))

RetryableStatus == {429, 500, 502, 503, 504}
Is2xx(status) == status >= 200 /\ status < 300

\* int(r.headers.get("Retry-After", 60))
RetryAfterOf(r) == IF r.has_retry_after THEN r.retry_after ELSE DefaultRetryAfter

\* m.lower() on the message of an errors payload.
Lower(body) == IF body = "RATE_LIMIT" THEN "rate_limit" ELSE body

\* An http_graphql that looks for "rate limit" in the message as it is spelled.
GraphqlAttempt_case_sensitive(r) ==
    IF r.status = 403 THEN [raises |-> TRUE, slept |-> RetryAfterOf(r)]
    ELSE IF r.status \in RetryableStatus THEN [raises |-> TRUE, slept |-> 0]
    ELSE IF ~Is2xx(r.status) THEN [raises |-> TRUE, slept |-> 0]
    ELSE IF r.body = "rate_limit" THEN [raises |-> TRUE, slept |-> RateLimitCooldown]
    ELSE [raises |-> FALSE, slept |-> 0]

\* An http_graphql that raises on every errors payload.
GraphqlAttempt_errors_raise(r) ==
    IF r.status = 403 THEN [raises |-> TRUE, slept |-> RetryAfterOf(r)]
    ELSE IF ~(r.status >= 200 /\ r.status < 300) THEN [raises |-> TRUE, slept |-> 0]
    ELSE IF r.body \in {"rate_limit", "not_found", "errors"} THEN [raises |-> TRUE, slept |-> 0]
    ELSE [raises |-> FALSE, slept |-> 0]

\* An http_graphql that raises on a "Could not resolve" payload.
GraphqlAttempt_not_found_raises(r) ==
    IF r.status = 403 THEN [raises |-> TRUE, slept |-> RetryAfterOf(r)]
    ELSE IF r.status \in RetryableStatus THEN [raises |-> TRUE, slept |-> 0]
    ELSE IF ~Is2xx(r.status) THEN [raises |-> TRUE, slept |-> 0]
    ELSE IF r.body \in {"rate_limit", "not_found"} THEN [raises |-> TRUE, slept |-> RateLimitCooldown]
    ELSE [raises |-> FALSE, slept |-> 0]

\* One attempt of http_graphql on response r, after update_limits:
\* what the function body does (raise or return) and how long it sleeps first.
GraphqlAttempt(r) ==
    IF r.status = 403 THEN [raises |-> TRUE, slept |-> RetryAfterOf(r)]
    ELSE IF r.status \in RetryableStatus THEN [raises |-> TRUE, slept |-> 0]
    ELSE IF ~Is2xx(r.status) THEN [raises |-> TRUE, slept |-> 0]
    ELSE IF Lower(r.body) = "rate_limit" THEN [raises |-> TRUE, slept |-> RateLimitCooldown]
    ELSE [raises |-> FALSE, slept |-> 0]

\* An http_get that hands a 429/5xx response back to its caller.
GetAttempt_returns_5xx(r) ==
    IF r.status = 403 THEN [raises |-> TRUE, slept |-> RetryAfterOf(r)]
    ELSE IF r.status \in RetryableStatus THEN [raises |-> FALSE, slept |-> 0]
    ELSE IF ~Is2xx(r.status) THEN [raises |-> TRUE, slept |-> 0]
    ELSE [raises |-> FALSE, slept |-> 0]

\* One attempt of http_get on response r.
GetAttempt(r) ==
    IF r.status = 403 THEN [raises |-> TRUE, slept |-> RetryAfterOf(r)]
    ELSE IF r.status \in RetryableStatus THEN [raises |-> TRUE, slept |-> 0]
    ELSE IF ~Is2xx(r.status) THEN [raises |-> TRUE, slept |-> 0]
    ELSE [raises |-> FALSE, slept |-> 0]

\* collect_one_repo on the payload http_graphql returned: the record it goes on
\* to append at once, or nothing yet when the repository is to be collected.
HasErrors(body) == body \in {"not_found", "errors"}
HasData(body) == body \in {"repo", "archived", "fork", "not_found"}
HasRepository(body) == body \in {"repo", "archived", "fork"}

\* ReturnOf(rec): what collect_one_repo returns after appending rec.
ReturnOf(record) ==
    IF "skipped" \in DOMAIN record THEN NoneVal
    ELSE IF "meta" \in DOMAIN record THEN record.meta
    ELSE record

\* ---------------------------------------------------------------- state
VARIABLES
    master,          \* the repositories of the master list, in its order
    max_workers,     \* the github.max_workers setting
    scen,            \* what each repository's remote answers on every request
    file, tail,      \* the checkpoint file
    out_meta, out_prs, out_bugs, out_contribs,   \* the output tables on disk
    phase,           \* main: "init", "collect", "done"; "crashed" when the process died
    runNo,           \* invocations of main so far
    done,            \* main: load_checkpoint's result
    remaining,       \* main: the repositories of this run
    queue,           \* the executor's work queue
    fut, futval,     \* each future's state and its result
    repo_meta_rows,  \* main: the results collected in memory
    pbar_n,          \* main: the progress counter
    pc, cur, attempt, tok, rec,   \* each worker thread: position and locals
    delays,          \* each thread's current call: before each further attempt, the
                     \* sleep inside the attempt and tenacity's wait after it
    ckptLock,        \* _checkpoint_lock: the holder, or 0
    rotLock,         \* TokenRotator._lock: the holder, or 0
    tokens,          \* TokenRotator._tokens
    now,             \* the clock, time.time()
    wake,            \* each thread sleeping in get_token: when its sleep ends
    grant,           \* each thread between get_token and the end of its request:
                     \* what get_token handed out, and when, and whether the
                     \* token's quota has not been reported since
    rotator,         \* the global _rotator: 0 for None, or the instance's number
    rotator_lock,    \* _rotator_lock: the holder, or 0
    built,           \* TokenRotator instances constructed in this process
    spc,             \* each caller's position in get_token_rotator
    got              \* what get_token_rotator returned to each caller, or 0

envVars == <<master, max_workers, scen, stamps, env_tokens>>
diskVars == <<file, tail>>
outVars == <<out_meta, out_prs, out_bugs, out_contribs>>
mainVars == <<phase, runNo, done, remaining, repo_meta_rows, pbar_n>>
futVars == <<queue, fut, futval>>
workerVars == <<pc, cur, attempt, tok, delays, rec>>
poolVars == <<rotLock, tokens, now, wake, grant>>
singVars == <<rotator, rotator_lock, built, spc, got>>
vars == <<envVars, diskVars, outVars, mainVars, futVars, workerVars, ckptLock, poolVars,
          singVars>>

\* The threads that call get_token_rotator: the executor's and the main thread.
MainThread == MaxThreads + 1
Callers == Threads \cup {MainThread}

\* A process in which get_token_rotator has not been called.
NoRotator ==
    /\ rotator = 0
    /\ rotator_lock = 0
    /\ built = 0
    /\ spc = [c \in Callers |-> "out"]
    /\ got = [c \in Callers |-> 0]

NoGrant == [token |-> 0, had |-> 0, at |-> 0, reset_at |-> 0, slept |-> FALSE, fresh |-> FALSE]

\* The memory of a process that has not started main's work yet.
FreshMemory ==
    /\ done = {}
    /\ remaining = <<>>
    /\ queue = <<>>
    /\ fut = [u \in Units |-> "none"]
    /\ futval = [u \in Units |-> NoneVal]
    /\ repo_meta_rows = <<>>
    /\ pbar_n = 0
    /\ pc = [w \in Threads |-> "idle"]
    /\ cur = [w \in Threads |-> 0]
    /\ attempt = [w \in Threads |-> 0]
    /\ tok = [w \in Threads |-> 0]
    /\ delays = [w \in Threads |-> <<>>]
    /\ rec = [w \in Threads |-> NoneVal]
    /\ ckptLock = 0
    /\ rotLock = 0
    /\ tokens = InitialTokens
    /\ wake = [w \in Threads |-> 0]
    /\ grant = [w \in Threads |-> NoGrant]

InitCommon ==
    /\ file = <<>>
    /\ tail = <<>>
    /\ out_meta = <<>>
    /\ out_prs = <<>>
    /\ out_bugs = <<>>
    /\ out_contribs = <<>>
    /\ phase = "init"
    /\ runNo = 0
    /\ now = 0
    /\ NoRotator
    /\ FreshMemory

\* Every repository answers the same on every request, with no quota headers.
Init ==
    /\ master = [i \in 1..NumUnits |-> i]
    /\ max_workers \in 1..MaxThreads
    /\ scen \in [Units -> Scenarios]
    /\ stamps = FixedStamps
    /\ env_tokens = FixedEnv
    /\ InitCommon

\* The memory of the next process: nothing of the dead one survives.
ResetWorkers ==
    /\ pc' = [w \in Threads |-> "idle"]
    /\ cur' = [w \in Threads |-> 0]
    /\ attempt' = [w \in Threads |-> 0]
    /\ tok' = [w \in Threads |-> 0]
    /\ delays' = [w \in Threads |-> <<>>]
    /\ rec' = [w \in Threads |-> NoneVal]
    /\ ckptLock' = 0
    /\ rotLock' = 0
    /\ tokens' = InitialTokens
    /\ wake' = [w \in Threads |-> 0]
    /\ grant' = [w \in Threads |-> NoGrant]

\* main, line 307, in a new process: the first call of get_token_rotator, made
\* before any other thread exists, constructs the instance and returns it.
MainGetsRotator ==
    /\ rotator' = 1
    /\ rotator_lock' = 0
    /\ built' = 1
    /\ spc' = [c \in Callers |-> "out"]
    /\ got' = [c \in Callers |-> IF c = MainThread THEN 1 ELSE 0]

\* ----------------------------------------------------------------- main
\* main, lines 280-318: load the checkpoint, compute the remaining work, build
\* the rotator and submit one future per remaining repository.
MainStart ==
    /\ phase \in {"init", "crashed", "done"}
    /\ runNo < MaxRuns
    /\ ConfiguredSecrets # <<>>
    /\ runNo' = runNo + 1
    /\ LET d == load_checkpoint(file, tail)
           todo == SelectSeq(master, LAMBDA r : r \notin d)
       IN  /\ done' = d
           /\ remaining' = todo
           /\ queue' = todo
           /\ fut' = [u \in Units |->
                        IF \E i \in DOMAIN todo : todo[i] = u THEN "pending" ELSE "none"]
    /\ futval' = [u \in Units |-> NoneVal]
    /\ repo_meta_rows' = <<>>
    /\ pbar_n' = 0
    /\ phase' = "collect"
    /\ ResetWorkers
    /\ MainGetsRotator
    /\ UNCHANGED <<envVars, diskVars, outVars, now>>

\* main, lines 280-307, when no GITHUB_TOKEN_PAT* name is set: the rotator's
\* constructor raises EnvironmentError and the process ends before any work.
MainStartNoTokens ==
    /\ phase \in {"init", "failed"}
    /\ runNo < MaxRuns
    /\ ConfiguredSecrets = <<>>
    /\ runNo' = runNo + 1
    /\ phase' = "failed"
    /\ UNCHANGED <<envVars, singVars, diskVars, outVars, done, remaining, repo_meta_rows, pbar_n,
                   futVars, workerVars, ckptLock, poolVars>>

\* An executor that starts a thread for every submitted future.
PickUnit_unbounded(w) ==
    /\ phase = "collect"
    /\ pc[w] = "idle"
    /\ queue # <<>>
    /\ cur' = [cur EXCEPT ![w] = Head(queue)]
    /\ queue' = Tail(queue)
    /\ fut' = [fut EXCEPT ![Head(queue)] = "running"]
    /\ pc' = [pc EXCEPT ![w] = "gql_token"]
    /\ attempt' = [attempt EXCEPT ![w] = 1]
    /\ delays' = [delays EXCEPT ![w] = <<>>]
    /\ UNCHANGED <<envVars, singVars, diskVars, outVars, mainVars, futval, tok, rec, ckptLock, poolVars>>

\* An executor whose threads read the work queue without taking the item off.
PickUnit_no_dequeue(w) ==
    /\ phase = "collect"
    /\ w <= max_workers
    /\ pc[w] = "idle"
    /\ queue # <<>>
    /\ cur' = [cur EXCEPT ![w] = Head(queue)]
    /\ queue' = queue
    /\ fut' = [fut EXCEPT ![Head(queue)] = "running"]
    /\ pc' = [pc EXCEPT ![w] = "gql_token"]
    /\ attempt' = [attempt EXCEPT ![w] = 1]
    /\ delays' = [delays EXCEPT ![w] = <<>>]
    /\ UNCHANGED <<envVars, singVars, diskVars, outVars, mainVars, futval, tok, rec, ckptLock, poolVars>>

\* A worker thread of the executor takes the next queued future.
PickUnit(w) ==
    /\ phase = "collect"
    /\ w <= max_workers
    /\ pc[w] = "idle"
    /\ queue # <<>>
    /\ cur' = [cur EXCEPT ![w] = Head(queue)]
    /\ queue' = Tail(queue)
    /\ fut' = [fut EXCEPT ![Head(queue)] = "running"]
    /\ pc' = [pc EXCEPT ![w] = "gql_token"]
    /\ attempt' = [attempt EXCEPT ![w] = 1]
    /\ delays' = [delays EXCEPT ![w] = <<>>]
    /\ UNCHANGED <<envVars, singVars, diskVars, outVars, mainVars, futval, tok, rec, ckptLock, poolVars>>

\* A collect_one_repo that writes its checkpoint before it makes the call.
AfterToken_skips_call(p) == IF p \in {"gql_token", "gql_sleep"} THEN "append" ELSE "rest_get"

\* Where a thread goes once get_token has returned.
AfterToken(p) == IF p \in {"gql_token", "gql_sleep"} THEN "gql_post" ELSE "rest_get"

\* get_token when some token has quota left (after the refresh): the whole
\* critical section, lines 104-114 and 124.
GetToken(w) ==
    /\ pc[w] \in {"gql_token", "rest_token"}
    /\ rotLock = 0
    /\ LET toks == Refresh(tokens, now)
           best == Best(toks)
       IN  /\ toks[best].remaining > 0
           /\ tokens' = toks
           /\ tok' = [tok EXCEPT ![w] = toks[best].token]
           /\ grant' = [grant EXCEPT ![w] =
                  [token |-> toks[best].token, had |-> tokens[best].remaining, at |-> now,
                   reset_at |-> toks[best].reset_at, slept |-> FALSE, fresh |-> TRUE]]
    /\ pc' = [pc EXCEPT ![w] = AfterToken(pc[w])]
    /\ UNCHANGED <<envVars, singVars, diskVars, outVars, mainVars, futVars, cur, attempt, delays,
                   rec, ckptLock, rotLock, now, wake>>

\* get_token when every token is exhausted: lines 104-119, up to the sleep.
GetTokenSleep(w) ==
    /\ pc[w] \in {"gql_token", "rest_token"}
    /\ rotLock = 0
    /\ LET toks == Refresh(tokens, now)
       IN  /\ toks[Best(toks)].remaining <= 0
           /\ tokens' = toks
           /\ wake' = [wake EXCEPT ![w] = now + WaitSec(toks, now)]
    /\ rotLock' = w
    /\ pc' = [pc EXCEPT ![w] = IF pc[w] = "gql_token" THEN "gql_sleep" ELSE "rest_sleep"]
    /\ UNCHANGED <<envVars, singVars, diskVars, outVars, mainVars, futVars, cur, attempt, tok, delays,
                   rec, ckptLock, now, grant>>

\* A get_token that does not release the lock after its sleep.
GetTokenWake_keeps_lock(w) ==
    /\ pc[w] \in {"gql_sleep", "rest_sleep"}
    /\ now >= wake[w]
    /\ tokens' = ResetAll(tokens)
    /\ tok' = [tok EXCEPT ![w] = tokens[AfterSleepToken].token]
    /\ grant' = [grant EXCEPT ![w] =
           [token |-> tokens[AfterSleepToken].token, had |-> tokens[AfterSleepToken].remaining, at |-> now,
            reset_at |-> tokens[AfterSleepToken].reset_at, slept |-> TRUE, fresh |-> TRUE]]
    /\ rotLock' = rotLock
    /\ pc' = [pc EXCEPT ![w] = AfterToken(pc[w])]
    /\ UNCHANGED <<envVars, singVars, diskVars, outVars, mainVars, futVars, cur, attempt, delays,
                   rec, ckptLock, now, wake>>

\* get_token after the sleep: lines 120-124.
GetTokenWake(w) ==
    /\ pc[w] \in {"gql_sleep", "rest_sleep"}
    /\ now >= wake[w]
    /\ tokens' = ResetAll(tokens)
    /\ tok' = [tok EXCEPT ![w] = tokens[AfterSleepToken].token]
    /\ grant' = [grant EXCEPT ![w] =
           [token |-> tokens[AfterSleepToken].token, had |-> tokens[AfterSleepToken].remaining, at |-> now,
            reset_at |-> tokens[AfterSleepToken].reset_at, slept |-> TRUE, fresh |-> TRUE]]
    /\ rotLock' = 0
    /\ pc' = [pc EXCEPT ![w] = AfterToken(pc[w])]
    /\ UNCHANGED <<envVars, singVars, diskVars, outVars, mainVars, futVars, cur, attempt, delays,
                   rec, ckptLock, now, wake>>

\* The clock advances.
Tick ==
    /\ now < MaxTime
    /\ now' = now + 1
    /\ UNCHANGED <<envVars, singVars, diskVars, outVars, mainVars, futVars, workerVars, ckptLock,
                   rotLock, tokens, wake, grant>>

\* The thread's future ends and the thread goes back to the executor's queue.
EndFuture(w, state, value) ==
    /\ fut' = [fut EXCEPT ![cur[w]] = state]
    /\ futval' = [futval EXCEPT ![cur[w]] = value]
    /\ pc' = [pc EXCEPT ![w] = "idle"]
    /\ cur' = [cur EXCEPT ![w] = 0]
    /\ attempt' = [attempt EXCEPT ![w] = 0]
    /\ delays' = [delays EXCEPT ![w] = <<>>]
    /\ rec' = [rec EXCEPT ![w] = NoneVal]

\* A collect_one_repo without the archived/fork check.
FirstRecord_no_skip(repo, body) ==
    IF body \in {"errors"} THEN ErrorRecord(repo, "errors")
    ELSE IF body = "not_found" THEN ErrorRecord(repo, "repository not found")
    ELSE DoneRecord(repo, body, <<>>)

\* collect_one_repo, lines 223-246, on the payload http_graphql returned: the
\* record it appends at once, or the record it goes on to complete.
FirstRecord(repo, body) ==
    IF HasErrors(body) /\ ~HasData(body) THEN ErrorRecord(repo, "errors")
    ELSE IF ~HasRepository(body) THEN ErrorRecord(repo, "repository not found")
    ELSE IF body \in {"archived", "fork"} THEN SkipRecord(repo)
    ELSE DoneRecord(repo, body, <<>>)

\* What the threads hold once thread w's request has ended and update_limits
\* has run on its response r: w holds nothing, and a token another thread was
\* handed before this report of its quota is no longer fresh.
AfterReport(w, r) ==
    [v \in Threads |->
        IF v = w THEN NoGrant
        ELSE IF r.has_remaining /\ grant[v].token = tok[w]
        THEN [grant[v] EXCEPT !.fresh = FALSE]
        ELSE grant[v]]

\* One attempt of http_graphql, from the response r of the request to the end
\* of the attempt: update_limits, the classification, the sleep, and then
\* tenacity's decision; when the call returns, collect_one_repo up to its next
\* call.  update_limits takes the rotator's lock only when r has the header.
GqlRespond(w, r) ==
    /\ pc[w] = "gql_post"
    /\ r.has_remaining => rotLock = 0
    /\ tokens' = update_limits(tokens, tok[w], r)
    /\ LET a == GraphqlAttempt(r)
       IN  IF a.raises
           THEN IF attempt[w] < MaxAttempts
                THEN /\ attempt' = [attempt EXCEPT ![w] = attempt[w] + 1]
                     /\ delays' = [delays EXCEPT ![w] =
                            Append(delays[w],
                                   [slept |-> a.slept,
                                    wait |-> wait_exponential(GqlWaitMin, GqlWaitMax, attempt[w])])]
                     /\ pc' = [pc EXCEPT ![w] = "gql_token"]
                     /\ UNCHANGED <<futVars, cur, rec>>
                ELSE /\ EndFuture(w, "exception", [repo_full_name |-> cur[w], error |-> "exception"])
                     /\ UNCHANGED queue
           ELSE LET first == FirstRecord(cur[w], r.body)
                IN  /\ rec' = [rec EXCEPT ![w] = first]
                    /\ pc' = [pc EXCEPT ![w] =
                           IF "meta" \in DOMAIN first THEN "rest_token" ELSE "append"]
                    /\ attempt' = [attempt EXCEPT ![w] = 1]
                    /\ delays' = [delays EXCEPT ![w] = <<>>]
                    /\ UNCHANGED <<futVars, cur>>
    /\ grant' = AfterReport(w, r)
    /\ UNCHANGED <<envVars, singVars, diskVars, outVars, mainVars, tok, ckptLock, rotLock, now, wake>>

\* A collect_one_repo without the try/except around collect_contributors_rest.
RestRespond_failure_propagates(w, r) ==
    /\ pc[w] = "rest_get"
    /\ LET a == GetAttempt(r)
       IN  IF a.raises
           THEN /\ tokens' = tokens
                /\ IF attempt[w] < MaxAttempts
                   THEN /\ attempt' = [attempt EXCEPT ![w] = attempt[w] + 1]
                        /\ delays' = [delays EXCEPT ![w] =
                               Append(delays[w],
                                      [slept |-> a.slept,
                                       wait |-> wait_exponential(GetWaitMin, GetWaitMax, attempt[w])])]
                        /\ UNCHANGED <<pc, rec, futVars, cur>>
                   ELSE /\ EndFuture(w, "exception",
                                     [repo_full_name |-> cur[w], error |-> "exception"])
                        /\ UNCHANGED queue
           ELSE /\ r.has_remaining => rotLock = 0
                /\ tokens' = update_limits(tokens, tok[w], r)
                /\ rec' = [rec EXCEPT ![w] =
                       [rec[w] EXCEPT !.contribs = IF r.body = "list" THEN contributor_rows(cur[w])
                                                   ELSE <<>>,
                                      !.prs = latency_fields(@)]]
                /\ pc' = [pc EXCEPT ![w] = "append"]
                /\ delays' = [delays EXCEPT ![w] = <<>>]
                /\ UNCHANGED <<attempt, futVars, cur>>
    /\ grant' = IF GetAttempt(r).raises
                 THEN [grant EXCEPT ![w] = IF pc'[w] = "rest_get" THEN grant[w] ELSE NoGrant]
                 ELSE AfterReport(w, r)
    /\ UNCHANGED <<envVars, singVars, diskVars, outVars, mainVars, tok, ckptLock,
                   rotLock, now, wake>>

\* One attempt of http_get inside collect_contributors_rest, and what follows
\* it: another attempt, or update_limits and the rows, or (retries exhausted)
\* collect_one_repo's except branch with no contributors.
RestRespond(w, r) ==
    /\ pc[w] = "rest_get"
    /\ LET a == GetAttempt(r)
       IN  IF a.raises
           THEN /\ tokens' = tokens
                /\ IF attempt[w] < MaxAttempts
                   THEN /\ attempt' = [attempt EXCEPT ![w] = attempt[w] + 1]
                        /\ delays' = [delays EXCEPT ![w] =
                               Append(delays[w],
                                      [slept |-> a.slept,
                                       wait |-> wait_exponential(GetWaitMin, GetWaitMax, attempt[w])])]
                        /\ UNCHANGED <<pc, rec>>
                   ELSE /\ rec' = [rec EXCEPT ![w] =
                               [rec[w] EXCEPT !.contribs = <<>>, !.prs = latency_fields(@)]]
                        /\ pc' = [pc EXCEPT ![w] = "append"]
                        /\ delays' = [delays EXCEPT ![w] = <<>>]
                        /\ UNCHANGED attempt
           ELSE /\ r.has_remaining => rotLock = 0
                /\ tokens' = update_limits(tokens, tok[w], r)
                /\ rec' = [rec EXCEPT ![w] =
                       [rec[w] EXCEPT !.contribs = IF r.body = "list" THEN contributor_rows(cur[w])
                                                   ELSE <<>>,
                                      !.prs = latency_fields(@)]]
                /\ pc' = [pc EXCEPT ![w] = "append"]
                /\ delays' = [delays EXCEPT ![w] = <<>>]
                /\ UNCHANGED attempt
    /\ grant' = IF GetAttempt(r).raises
                 THEN [grant EXCEPT ![w] = IF pc'[w] = "rest_get" THEN grant[w] ELSE NoGrant]
                 ELSE AfterReport(w, r)
    /\ UNCHANGED <<envVars, singVars, diskVars, outVars, mainVars, futVars, cur, tok, ckptLock,
                   rotLock, now, wake>>

\* An append_checkpoint without the lock.
AppendLock_unguarded(w) ==
    /\ pc[w] = "append"
    /\ ckptLock' = w
    /\ pc' = [pc EXCEPT ![w] = "writing"]
    /\ UNCHANGED <<envVars, singVars, diskVars, outVars, mainVars, futVars, cur, attempt, tok, delays,
                   rec, poolVars>>

\* An append_checkpoint that takes the rotator's lock as well and keeps it.
AppendLock_with_pool_lock(w) ==
    /\ pc[w] = "append"
    /\ ckptLock = 0
    /\ rotLock = 0
    /\ ckptLock' = w
    /\ rotLock' = w
    /\ pc' = [pc EXCEPT ![w] = "writing"]
    /\ UNCHANGED <<envVars, singVars, diskVars, outVars, mainVars, futVars, cur, attempt, tok,
                   delays, rec, tokens, now, wake, grant>>

\* append_checkpoint: with _checkpoint_lock.
AppendLock(w) ==
    /\ pc[w] = "append"
    /\ ckptLock = 0
    /\ ckptLock' = w
    /\ pc' = [pc EXCEPT ![w] = "writing"]
    /\ UNCHANGED <<envVars, singVars, diskVars, outVars, mainVars, futVars, cur, attempt, tok, delays,
                   rec, poolVars>>

\* append_checkpoint: the write and the release; collect_one_repo then returns.
AppendWrite(w) ==
    /\ pc[w] = "writing"
    /\ file' = WriteLine(file, tail, rec[w])
    /\ tail' = <<>>
    /\ ckptLock' = 0
    /\ EndFuture(w, "result", ReturnOf(rec[w]))
    /\ UNCHANGED <<envVars, singVars, outVars, mainVars, queue, tok, poolVars>>

\* append_checkpoint when the file cannot be opened for appending: open raises
\* OSError inside the with block, the lock is released, and the exception
\* leaves collect_one_repo.
AppendFail(w) ==
    /\ pc[w] = "append"
    /\ ckptLock = 0
    /\ EndFuture(w, "exception", [repo_full_name |-> cur[w], error |-> "append failed"])
    /\ UNCHANGED <<envVars, singVars, diskVars, outVars, mainVars, queue, tok, ckptLock, poolVars>>

\* main, lines 319-327: one turn of the as_completed loop.
MainConsume(u) ==
    /\ phase = "collect"
    /\ fut[u] \in {"result", "exception"}
    /\ repo_meta_rows' =
           IF fut[u] = "exception" \/ Truthy(futval[u])
           THEN Append(repo_meta_rows, futval[u])
           ELSE repo_meta_rows
    /\ pbar_n' = pbar_n + 1
    /\ fut' = [fut EXCEPT ![u] = "consumed"]
    /\ UNCHANGED <<envVars, singVars, diskVars, outVars, phase, runNo, done, remaining, queue, futval,
                   workerVars, ckptLock, poolVars>>

\* A rebuild that adds the log's rows to the tables already on disk.
MainRebuild_appending ==
    /\ phase = "collect"
    /\ \A u \in Units : fut[u] \in {"none", "consumed"}
    /\ LET all_records == load_checkpoint_data(file, tail)
       IN  /\ out_meta' = out_meta \o RebuildMeta(all_records, 1)
           /\ out_prs' = out_prs \o RebuildChildren(all_records, "prs", 1)
           /\ out_bugs' = out_bugs \o RebuildChildren(all_records, "bugs", 1)
           /\ out_contribs' = out_contribs \o RebuildChildren(all_records, "contribs", 1)
    /\ phase' = "done"
    /\ UNCHANGED <<envVars, singVars, diskVars, runNo, done, remaining, repo_meta_rows, pbar_n,
                   futVars, workerVars, ckptLock, poolVars>>

\* main, lines 332-377: rebuild the tables from the checkpoint and write them;
\* a child table is written only when it has rows.
MainRebuild ==
    /\ phase = "collect"
    /\ \A u \in Units : fut[u] \in {"none", "consumed"}
    /\ LET all_records == load_checkpoint_data(file, tail)
           all_prs == RebuildChildren(all_records, "prs", 1)
           all_bugs == RebuildChildren(all_records, "bugs", 1)
           all_contribs == RebuildChildren(all_records, "contribs", 1)
       IN  /\ out_meta' = RebuildMeta(all_records, 1)
           /\ out_prs' = IF all_prs # <<>> THEN all_prs ELSE out_prs
           /\ out_bugs' = IF all_bugs # <<>> THEN all_bugs ELSE out_bugs
           /\ out_contribs' = IF all_contribs # <<>> THEN all_contribs ELSE out_contribs
    /\ phase' = "done"
    /\ UNCHANGED <<envVars, singVars, diskVars, runNo, done, remaining, repo_meta_rows, pbar_n,
                   futVars, workerVars, ckptLock, poolVars>>

\* ---------------------------------------------------------------- crash
\* The process dies; its memory is gone and the file keeps what reached it.
Die ==
    /\ phase' = "crashed"
    /\ done' = {}
    /\ remaining' = <<>>
    /\ queue' = <<>>
    /\ fut' = [u \in Units |-> "none"]
    /\ futval' = [u \in Units |-> NoneVal]
    /\ repo_meta_rows' = <<>>
    /\ pbar_n' = 0
    /\ ResetWorkers
    /\ rotator' = 0
    /\ rotator_lock' = 0
    /\ built' = 0
    /\ spc' = [c \in Callers |-> "out"]
    /\ got' = [c \in Callers |-> 0]
    /\ UNCHANGED <<envVars, outVars, runNo, now>>

\* The process dies between writes.
Crash ==
    /\ phase = "collect"
    /\ Die
    /\ UNCHANGED diskVars

\* The process dies while thread w writes its line: the record's text reached
\* the file up to some byte, either short of the end or all but the newline.
CrashTorn(w, whole) ==
    /\ phase = "collect"
    /\ pc[w] = "writing"
    /\ tail' = Append(tail, Piece(rec[w], whole))
    /\ file' = file
    /\ Die

\* ------------------------------------------------------- specifications
\* The remote answers of the repository a thread works on.
GqlStep(w) == pc[w] = "gql_post" /\ GqlRespond(w, GqlOf(scen[cur[w]]))
RestStep(w) == pc[w] = "rest_get" /\ RestRespond(w, RestOf(scen[cur[w]]))

\* Runs of the collector over one checkpoint file, with crashes and resumes.
Next ==
    \/ MainStart
    \/ \E w \in Threads : PickUnit(w)
    \/ \E w \in Threads : GetToken(w)
    \/ \E w \in Threads : GqlStep(w)
    \/ \E w \in Threads : RestStep(w)
    \/ \E w \in Threads : AppendLock(w)
    \/ \E w \in Threads : AppendWrite(w)
    \/ \E u \in Units : MainConsume(u)
    \/ MainRebuild
    \/ Crash
    \/ \E w \in Threads, whole \in BOOLEAN : CrashTorn(w, whole)

Spec == Init /\ [][Next]_vars

\* One complete run after another over the same checkpoint file, no crash.
NextRun ==
    \/ MainStart
    \/ \E w \in Threads : PickUnit(w)
    \/ \E w \in Threads : GetToken(w)
    \/ \E w \in Threads : GqlStep(w)
    \/ \E w \in Threads : RestStep(w)
    \/ \E w \in Threads : AppendLock(w)
    \/ \E w \in Threads : AppendWrite(w)
    \/ \E u \in Units : MainConsume(u)
    \/ MainRebuild

SpecRun == Init /\ [][NextRun]_vars

\* ---- complete runs over a checkpoint file that at times cannot be written
NextDisk ==
    \/ MainStart
    \/ \E w \in Threads : PickUnit(w)
    \/ \E w \in Threads : GetToken(w)
    \/ \E w \in Threads : GqlStep(w)
    \/ \E w \in Threads : RestStep(w)
    \/ \E w \in Threads : AppendLock(w)
    \/ \E w \in Threads : AppendWrite(w)
    \/ \E w \in Threads : AppendFail(w)
    \/ \E u \in Units : MainConsume(u)
    \/ MainRebuild

SpecDisk == Init /\ [][NextDisk]_vars

\* ---- runs and resumes against a remote whose answers change between runs
FlakyScenarios == {"ok", "archived", "http500"}

\* Between two invocations of main a repository's remote starts to answer
\* differently (an outage begins or ends, a repository gets archived).
RemoteChanges ==
    /\ phase \in {"crashed", "done"}
    /\ \E u \in Units, s \in FlakyScenarios :
           /\ scen[u] # s
           /\ scen' = [scen EXCEPT ![u] = s]
    /\ UNCHANGED <<master, max_workers, stamps, env_tokens, singVars, diskVars, outVars, mainVars, futVars,
                   workerVars, ckptLock, poolVars>>

InitFlaky ==
    /\ master = [i \in 1..NumUnits |-> i]
    /\ max_workers = MaxThreads
    /\ scen \in [Units -> FlakyScenarios]
    /\ stamps = FixedStamps
    /\ env_tokens = FixedEnv
    /\ InitCommon

NextFlaky ==
    \/ MainStart
    \/ \E w \in Threads : PickUnit(w)
    \/ \E w \in Threads : GetToken(w)
    \/ \E w \in Threads : GqlStep(w)
    \/ \E w \in Threads : RestStep(w)
    \/ \E w \in Threads : AppendLock(w)
    \/ \E w \in Threads : AppendWrite(w)
    \/ \E u \in Units : MainConsume(u)
    \/ MainRebuild
    \/ Crash
    \/ \E w \in Threads, whole \in BOOLEAN : CrashTorn(w, whole)
    \/ RemoteChanges

SpecFlaky == InitFlaky /\ [][NextFlaky]_vars

\* ---- one repository collected, for every combination of its timestamps
InitDerive ==
    /\ master = <<1>>
    /\ max_workers = 1
    /\ scen = [u \in Units |-> "ok"]
    /\ stamps \in [StampFields -> Timestamps]
    /\ env_tokens = FixedEnv
    /\ InitCommon

SpecDerive == InitDerive /\ [][NextRun]_vars

\* ---- complete runs, for every setting of the GITHUB_TOKEN_PAT* names
InitEnv ==
    /\ master = [i \in 1..NumUnits |-> i]
    /\ max_workers = MaxThreads
    /\ scen = [u \in Units |-> "ok"]
    /\ stamps = FixedStamps
    /\ env_tokens \in [EnvKeys -> {0} \cup TokenIds]
    /\ InitCommon

NextEnv ==
    \/ MainStart
    \/ MainStartNoTokens
    \/ \E w \in Threads : PickUnit(w)
    \/ \E w \in Threads : GetToken(w)
    \/ \E w \in Threads : GqlStep(w)
    \/ \E w \in Threads : RestStep(w)
    \/ \E w \in Threads : AppendLock(w)
    \/ \E w \in Threads : AppendWrite(w)
    \/ \E u \in Units : MainConsume(u)
    \/ MainRebuild

SpecEnv == InitEnv /\ [][NextEnv]_vars

\* ---- get_token_rotator called by several threads of one process at once
\* get_token_rotator, line 155: the first test of _rotator, outside the lock;
\* line 159 when it is set.
RotatorCheck(c) ==
    /\ spc[c] = "out"
    /\ IF rotator = 0
       THEN /\ spc' = [spc EXCEPT ![c] = "lock"]
            /\ got' = [got EXCEPT ![c] = 0]
       ELSE /\ spc' = [spc EXCEPT ![c] = "returned"]
            /\ got' = [got EXCEPT ![c] = rotator]
    /\ UNCHANGED <<envVars, diskVars, outVars, mainVars, futVars, workerVars, ckptLock,
                   poolVars, rotator, rotator_lock, built>>

\* get_token_rotator, line 156: with _rotator_lock.
RotatorLock(c) ==
    /\ spc[c] = "lock"
    /\ rotator_lock = 0
    /\ rotator_lock' = c
    /\ spc' = [spc EXCEPT ![c] = "locked"]
    /\ UNCHANGED <<envVars, diskVars, outVars, mainVars, futVars, workerVars, ckptLock,
                   poolVars, rotator, built, got>>

\* A get_token_rotator that does not test _rotator again inside the lock.
RotatorBuild_no_recheck(c) ==
    /\ spc[c] = "locked"
    /\ rotator_lock' = 0
    /\ IF ConfiguredSecrets = <<>>
       THEN /\ spc' = [spc EXCEPT ![c] = "raised"]
            /\ UNCHANGED <<rotator, built, got>>
       ELSE /\ built' = built + 1
            /\ rotator' = built + 1
            /\ got' = [got EXCEPT ![c] = built + 1]
            /\ spc' = [spc EXCEPT ![c] = "returned"]
    /\ UNCHANGED <<envVars, diskVars, outVars, mainVars, futVars, workerVars, ckptLock,
                   poolVars>>

\* get_token_rotator, lines 157-159: the second test inside the lock, the
\* construction when _rotator is still None (TokenRotator() raises when no
\* GITHUB_TOKEN_PAT* name is set, and _rotator stays None), the release of the
\* lock and the return.
RotatorBuild(c) ==
    /\ spc[c] = "locked"
    /\ rotator_lock' = 0
    /\ IF rotator # 0
       THEN /\ got' = [got EXCEPT ![c] = rotator]
            /\ spc' = [spc EXCEPT ![c] = "returned"]
            /\ UNCHANGED <<rotator, built>>
       ELSE IF ConfiguredSecrets = <<>>
       THEN /\ spc' = [spc EXCEPT ![c] = "raised"]
            /\ UNCHANGED <<rotator, built, got>>
       ELSE /\ built' = built + 1
            /\ rotator' = built + 1
            /\ got' = [got EXCEPT ![c] = built + 1]
            /\ spc' = [spc EXCEPT ![c] = "returned"]
    /\ UNCHANGED <<envVars, diskVars, outVars, mainVars, futVars, workerVars, ckptLock,
                   poolVars>>

\* The caller goes on and will call get_token_rotator again.
RotatorAgain(c) ==
    /\ spc[c] \in {"returned", "raised"}
    /\ spc' = [spc EXCEPT ![c] = "out"]
    /\ UNCHANGED <<envVars, diskVars, outVars, mainVars, futVars, workerVars, ckptLock,
                   poolVars, rotator, rotator_lock, built, got>>

InitSingleton ==
    /\ master = [i \in 1..NumUnits |-> i]
    /\ max_workers = MaxThreads
    /\ scen = [u \in Units |-> "ok"]
    /\ stamps = FixedStamps
    /\ env_tokens \in [EnvKeys -> {0} \cup TokenIds]
    /\ InitCommon

NextSingleton ==
    \/ \E c \in Callers : RotatorCheck(c)
    \/ \E c \in Callers : RotatorLock(c)
    \/ \E c \in Callers : RotatorBuild(c)
    \/ \E c \in Callers : RotatorAgain(c)

SpecSingleton == InitSingleton /\ [][NextSingleton]_vars

\* ---- the call layer on its own: one repository, one thread, any responses
\* The statuses and bodies a request can be answered with, without quota headers.
CallStatuses == {200, 401, 403, 404, 429, 500, 502, 503, 504}
RetryAfterValues == {0, 5}
QuotaValues == {0, 1}

\* The answers that carry the X-RateLimit-Remaining header: a success with the
\* given body, and failures.
WithQuota(body) ==
    {Response(200, body, FALSE, 0, TRUE, q, FALSE, 0) : q \in QuotaValues}
    \cup {Response(st, "none", FALSE, 0, TRUE, q, FALSE, 0) : st \in {403, 429, 500}, q \in QuotaValues}

GqlResponses ==
    {Plain(200, b) : b \in {"repo", "archived", "not_found", "errors", "rate_limit", "RATE_LIMIT"}}
    \cup {Plain(st, "none") : st \in CallStatuses \ {200}}
    \cup {Response(403, "none", TRUE, ra, FALSE, 0, FALSE, 0) : ra \in RetryAfterValues}
    \cup WithQuota("repo")

RestResponses ==
    {Plain(200, "list")}
    \cup {Plain(st, "none") : st \in CallStatuses \ {200}}
    \cup {Response(403, "none", TRUE, ra, FALSE, 0, FALSE, 0) : ra \in RetryAfterValues}
    \cup WithQuota("list")

InitCall ==
    /\ master = <<1>>
    /\ max_workers = 1
    /\ scen = [u \in Units |-> "ok"]
    /\ stamps = FixedStamps
    /\ env_tokens = FixedEnv
    /\ InitCommon

FirstStart == runNo = 0 /\ MainStart
GqlAny(w) == \E r \in GqlResponses : GqlRespond(w, r)
RestAny(w) == \E r \in RestResponses : RestRespond(w, r)

NextCall ==
    \/ FirstStart
    \/ \E w \in Threads : PickUnit(w)
    \/ \E w \in Threads : GetToken(w)
    \/ \E w \in Threads : GqlAny(w)
    \/ \E w \in Threads : RestAny(w)
    \/ \E w \in Threads : AppendLock(w)
    \/ \E w \in Threads : AppendWrite(w)
    \/ \E u \in Units : MainConsume(u)
    \/ MainRebuild

SpecCall == InitCall /\ [][NextCall]_vars

\* ---- the credential pool under load: responses carry quota headers, the
\* clock advances, and threads wait in get_token when every token is spent.
ResetValues == 1..MaxTime

PoolResponses(body) ==
    {Plain(200, body)}
    \cup {Response(200, body, FALSE, 0, TRUE, q, FALSE, 0) : q \in QuotaValues}
    \cup {Response(200, body, FALSE, 0, TRUE, q, TRUE, t) : q \in QuotaValues, t \in ResetValues}

PoolGql(w) == \E r \in PoolResponses("repo") : GqlRespond(w, r)
PoolRest(w) == \E r \in PoolResponses("list") : RestRespond(w, r)

NextPool ==
    \/ FirstStart
    \/ \E w \in Threads : PickUnit(w)
    \/ \E w \in Threads : GetToken(w)
    \/ \E w \in Threads : GetTokenSleep(w)
    \/ \E w \in Threads : GetTokenWake(w)
    \/ Tick
    \/ \E w \in Threads : PoolGql(w)
    \/ \E w \in Threads : PoolRest(w)
    \/ \E w \in Threads : AppendLock(w)
    \/ \E w \in Threads : AppendWrite(w)
    \/ \E u \in Units : MainConsume(u)
    \/ MainRebuild

InitPool ==
    /\ master = [i \in 1..NumUnits |-> i]
    /\ max_workers = MaxThreads
    /\ scen = [u \in Units |-> "ok"]
    /\ stamps = FixedStamps
    /\ env_tokens = FixedEnv
    /\ InitCommon

SpecPool == InitPool /\ [][NextPool]_vars

\* ---- a run to its end: every request is answered, every thread that can
\* step does, the clock advances, and every reset time a response names is
\* one the clock reaches.
ReachableResets == 1..(MaxTime - 1)

\* The answers: without quota headers, or reporting the token as spent until
\* a reset time.
LiveResponses(body) ==
    {Plain(200, body)}
    \cup {Response(200, body, FALSE, 0, TRUE, 0, TRUE, t) : t \in ReachableResets}

LiveGql(w) == \E r \in LiveResponses("repo") : GqlRespond(w, r)
LiveRest(w) == \E r \in LiveResponses("list") : RestRespond(w, r)

\* The steps of one thread of the executor.
ThreadLive(w) ==
    \/ PickUnit(w)
    \/ GetToken(w)
    \/ GetTokenSleep(w)
    \/ GetTokenWake(w)
    \/ LiveGql(w)
    \/ LiveRest(w)
    \/ AppendLock(w)
    \/ AppendWrite(w)

NextLive ==
    \/ FirstStart
    \/ \E w \in Threads : ThreadLive(w)
    \/ Tick
    \/ \E u \in Units : MainConsume(u)
    \/ MainRebuild

\* While some thread can step or the clock can advance, one of them does.
Fairness == WF_vars(NextLive)

SpecLive == InitPool /\ [][NextLive]_vars /\ Fairness

\* =============================================================== claims
Range(q) == {q[i] : i \in DOMAIN q}

\* The records a reader of the checkpoint file gets.
Parsed == Range(load_checkpoint_data(file, tail))

\* Everything in the file, byte for byte: the pieces of each line, a newline
\* after each terminated line, then the unterminated rest.
RECURSIVE BytesOf(_, _)
BytesOf(f, i) ==
    IF i > Len(f) THEN <<>> ELSE f[i] \o <<[nl |-> TRUE]>> \o BytesOf(f, i + 1)

Bytes(f, t) == BytesOf(f, 1) \o t

IsPrefix(a, b) == Len(a) <= Len(b) /\ SubSeq(b, 1, Len(a)) = a

\* The content of the four output tables, as sets of rows.
Dataset ==
    [meta |-> Range(out_meta), prs |-> Range(out_prs),
     bugs |-> Range(out_bugs), contribs |-> Range(out_contribs)]

\* The record collect_one_repo appends for a repository that answers the same
\* on every request; none when http_graphql ends in an exception.
RaisesAlways(u) == GraphqlAttempt(GqlOf(scen[u])).raises

RecordOf(u) ==
    LET first == FirstRecord(u, GqlOf(scen[u]).body)
    IN  IF "meta" \notin DOMAIN first THEN first
        ELSE [first EXCEPT !.contribs =
                 IF GetAttempt(RestOf(scen[u])).raises THEN <<>>
                 ELSE contributor_rows(u),
              !.prs = latency_fields(@)]

\* The records of one uninterrupted run over an empty checkpoint, in the order
\* of the master list, and the tables rebuilt from them.
RECURSIVE SinglePassRecords(_)
SinglePassRecords(i) ==
    IF i > Len(master) THEN <<>>
    ELSE (IF RaisesAlways(master[i]) THEN <<>> ELSE <<RecordOf(master[i])>>)
         \o SinglePassRecords(i + 1)

SinglePassDataset ==
    LET recs == SinglePassRecords(1)
    IN  [meta |-> Range(RebuildMeta(recs, 1)),
         prs |-> Range(RebuildChildren(recs, "prs", 1)),
         bugs |-> Range(RebuildChildren(recs, "bugs", 1)),
         contribs |-> Range(RebuildChildren(recs, "contribs", 1))]

\* The first run, when nothing interrupts it, produces the single-pass tables.
FirstRunIsSinglePass == phase = "done" /\ runNo = 1 => Dataset = SinglePassDataset

\* C1: Resumability. A run that crashed part-way, followed by a fresh
\* invocation over the same checkpoint file, ends with the same tables (as
\* sets of rows) as one uninterrupted run, the remote answering the same.
C1_Resumable == phase = "done" => Dataset = SinglePassDataset

\* The Done records (records carrying meta) the log holds for a repository.
DoneLines(u) ==
    LET recs == load_checkpoint_data(file, tail)
    IN  {i \in DOMAIN recs : recs[i].repo_full_name = u /\ "meta" \in DOMAIN recs[i]}

\* The repository's future of this run ended with collect_one_repo returning meta.
Succeeded(u) ==
    /\ fut[u] \in {"result", "consumed"}
    /\ "archived" \in DOMAIN futval[u]

\* C2: At-most-once completion. Over a run and any number of resumes the log
\* never holds more than one Done record for a repository, and a repository
\* whose collection succeeded holds exactly one.
C2_OneDoneRecord ==
    \A u \in Units :
        /\ Cardinality(DoneLines(u)) <= 1
        /\ Succeeded(u) => Cardinality(DoneLines(u)) = 1

\* The first half of C2 on its own: never two Done records for one repository.
AtMostOneDoneRecord == \A u \in Units : Cardinality(DoneLines(u)) <= 1

\* C5: every failure outcome of a repository's call, a terminal failure after
\* the retries and a fatal status included, leaves an Errored record for the
\* repository in the checkpoint before the run ends.
C5_FailureRecorded ==
    phase = "done" =>
        \A i \in DOMAIN repo_meta_rows :
            "error" \in DOMAIN repo_meta_rows[i] =>
                \E r \in Parsed :
                    /\ r.repo_full_name = repo_meta_rows[i].repo_full_name
                    /\ "error" \in DOMAIN r

AllPieces == UNION {Range(l) : l \in Range(Lines(file, tail))}

Excluded(u) == scen[u] \in {"archived", "fork"}

RowsOf(u) ==
    {x \in Range(out_meta) \cup Range(out_prs) \cup Range(out_bugs) \cup Range(out_contribs) :
        x.repo_full_name = u}

\* C9: Skip semantics. An archived or forked repository is recorded with a
\* Skipped record, never a Done or an Errored one, and has no row in any of
\* the rebuilt tables.
C9_SkipSemantics ==
    \A u \in Units :
        Excluded(u) =>
            /\ \A p \in AllPieces : p.rec.repo_full_name = u => "skipped" \in DOMAIN p.rec
            /\ fut[u] \in {"result", "consumed"} =>
                   \E p \in AllPieces : p.whole /\ p.rec = SkipRecord(u)
            /\ RowsOf(u) = {}

C9_Witness ==
    /\ phase = "done"
    /\ \E u \in Units : Excluded(u) /\ fut[u] = "consumed" /\ SkipRecord(u) \in Parsed
    /\ out_prs # <<>>

C4_FailureIsolated ==
    phase = "done" =>
        \A a, b \in Units :
            scen[a] = "not_found" /\ scen[b] \in {"ok", "ok_norest"} =>
                /\ \E x \in Parsed : x.repo_full_name = a /\ "error" \in DOMAIN x
                /\ \E x \in Parsed :
                       /\ x.repo_full_name = b
                       /\ "meta" \in DOMAIN x
                       /\ x.meta \in Range(out_meta)
                       /\ Range(x.prs) \subseteq Range(out_prs)
                       /\ Range(x.bugs) \subseteq Range(out_bugs)
                       /\ Range(x.contribs) \subseteq Range(out_contribs)
                /\ \A u \in Range(remaining) : fut[u] = "consumed"

C4_Witness ==
    /\ phase = "done"
    /\ runNo = 1
    /\ scen[1] = "not_found"
    /\ scen[2] = "ok"
    /\ ErrorRecord(1, "repository not found") \in Parsed
    /\ Cardinality(DoneLines(2)) = 1
    /\ Len(out_prs) = 1

\* C3: every get_token call hands out a credential whose recorded quota was
\* positive, or returns only after the returned credential's own reset time
\* has passed.
C3_QuotaOrOwnReset ==
    \A w \in Threads :
        grant[w].token # 0 =>
            \/ grant[w].had > 0
            \/ grant[w].at >= grant[w].reset_at

\* C7: no thread sleeps or waits for the network while it holds the rotator's
\* lock or the checkpoint lock; while one thread waits in get_token for the
\* reset, the others can still enter get_token and update_limits.
Suspended(w) == pc[w] \in {"gql_sleep", "rest_sleep", "gql_post", "rest_get"}

C7_NoLockWhileSuspended ==
    \A w \in Threads : Suspended(w) => rotLock # w /\ ckptLock # w

\* The delays of a thread's current call, and the call's configured cap.
InRestCall(w) == pc[w] \in {"rest_get"}
CapOf(w) == IF InRestCall(w) THEN GetWaitMax ELSE GqlWaitMax
Total(d) == d.slept + d.wait

\* C8 as claimed: over consecutive failures of one call, the whole delay before
\* each further attempt (the sleep taken inside the attempt plus the backoff
\* wait) never decreases and never exceeds the cap.
C8_TotalDelayMonotone ==
    \A w \in Threads :
        /\ \A i \in DOMAIN delays[w] : Total(delays[w][i]) <= CapOf(w)
        /\ \A i, j \in DOMAIN delays[w] :
               i <= j => Total(delays[w][i]) <= Total(delays[w][j])

\* C8, amended: over consecutive failures of one call, the backoff wait before
\* each further attempt never decreases and never exceeds the cap; the
\* Retry-After sleep and the rate-limit cooldown come on top of it.
C8_BackoffMonotone ==
    \A w \in Threads :
        /\ \A i \in DOMAIN delays[w] : delays[w][i].wait <= CapOf(w)
        /\ \A i, j \in DOMAIN delays[w] : i <= j => delays[w][i].wait <= delays[w][j].wait

C8_Witness ==
    \E w \in Threads :
        /\ Len(delays[w]) = MaxAttempts - 1
        /\ \E i \in DOMAIN delays[w] : delays[w][i].slept > 0
        /\ delays[w][1].wait < delays[w][MaxAttempts - 1].wait

\* The threads inside append_checkpoint's critical section.
Writers == {w \in Threads : pc[w] = "writing"}

\* C11: appends from concurrent workers exclude each other and are totally
\* ordered. At most one thread is inside append_checkpoint's critical section
\* and it holds the lock; every line of the log is one whole record; and the
\* log grows one line at a time, by the whole record of the thread that holds
\* the lock, after everything written before.
C11_AppendsSerialized ==
    /\ [](/\ Cardinality(Writers) <= 1
          /\ \A w \in Threads : pc[w] = "writing" <=> ckptLock = w
          /\ tail = <<>>
          /\ \A i \in DOMAIN file : WellFormed(file[i]))
    /\ [][file' # file =>
            \E w \in Threads :
                /\ ckptLock = w
                /\ file' = Append(file, <<Piece(rec[w], TRUE)>>)]_vars

C11_Witness ==
    /\ \E w \in Threads : pc[w] = "writing" /\ ckptLock = w
    /\ \E w \in Threads : pc[w] = "append"

\* The repositories being processed.
InFlight == {u \in Units : fut[u] = "running"}

\* C12: at every moment of a run the number of repositories being processed
\* is at most the configured max_workers.
C12_BoundedConcurrency == Cardinality(InFlight) <= max_workers

C12_Witness ==
    /\ max_workers < MaxThreads
    /\ Cardinality(InFlight) = max_workers
    /\ queue # <<>>

\* The moves of a repository's future within one run.
FutureMoves ==
    {<<"pending", "running">>, <<"running", "result">>, <<"running", "exception">>,
     <<"result", "consumed">>, <<"exception", "consumed">>}

\* C13: within one run every repository of the run is taken by one worker
\* thread and goes pending -> running -> ended (-> consumed by main) once: no
\* two threads work on the same repository, a queued repository is pending and
\* queued once, and no future goes back to running.
C13_ClaimedOnce ==
    /\ [](/\ \A w1, w2 \in Threads : w1 # w2 /\ cur[w1] # 0 => cur[w1] # cur[w2]
          /\ \A w \in Threads : cur[w] # 0 => fut[cur[w]] = "running"
          /\ \A u \in InFlight : \E w \in Threads : cur[w] = u
          /\ \A i, j \in DOMAIN queue : i # j => queue[i] # queue[j]
          /\ \A i \in DOMAIN queue : fut[queue[i]] = "pending")
    /\ [][runNo' = runNo /\ phase' = "collect" =>
            \A u \in Units : fut'[u] # fut[u] => <<fut[u], fut'[u]>> \in FutureMoves]_vars

C13_Witness ==
    /\ phase = "collect"
    /\ runNo = 2
    /\ \E u \in Units : fut[u] = "consumed"
    /\ \E u \in Units : fut[u] = "running"

\* The repositories whose collect_one_repo call of this run has ended.
Ended(u) == fut[u] \in {"result", "exception", "consumed"}

\* The records of the log for a repository.
RecordsFor(u) ==
    LET recs == load_checkpoint_data(file, tail)
    IN  {i \in DOMAIN recs : recs[i].repo_full_name = u}

\* C14: every way collect_one_repo can end for a repository leaves exactly one
\* record for it in the log (the log held none when the run started, since the
\* repository was in the run's work).
C14_OneRecordPerAttempt == \A u \in Units : Ended(u) => Cardinality(RecordsFor(u)) = 1

\* C15: rebuilding the tables twice from an unchanged log gives the same
\* tables both times, row for row. A run that finds every repository recorded
\* does no collection, so its rebuild reads the log the rebuild of the run
\* before it read, and it leaves every table as that rebuild wrote it.
C15_RebuildIdempotent ==
    [][phase = "collect" /\ phase' = "done" /\ runNo >= 2 /\ remaining = <<>> =>
          /\ <<file', tail'>> = <<file, tail>>
          /\ <<out_meta', out_prs', out_bugs', out_contribs'>> =
                 <<out_meta, out_prs, out_bugs, out_contribs>>]_vars

C15_Witness ==
    /\ phase = "done"
    /\ runNo = 2
    /\ remaining = <<>>
    /\ Len(out_meta) = 2
    /\ Len(out_prs) = 1
    /\ out_bugs # <<>>

\* The tables as a function of the log alone.
TablesOf(f, t) ==
    LET recs == load_checkpoint_data(f, t)
    IN  <<RebuildMeta(recs, 1), RebuildChildren(recs, "prs", 1),
          RebuildChildren(recs, "bugs", 1), RebuildChildren(recs, "contribs", 1)>>

\* C16: the tables a run ends with are a function of the log's content alone,
\* the one the rebuild computes from its records: whatever the run collected
\* in memory and whatever earlier runs left, a run that ends with this log
\* ends with these tables.
C16_OutputFromLogAlone ==
    phase = "done" => <<out_meta, out_prs, out_bugs, out_contribs>> = TablesOf(file, tail)

\* Token i has the largest remaining quota of toks, and is the first such.
HighestFirst(toks, i) ==
    /\ \A j \in DOMAIN toks : toks[j].remaining <= toks[i].remaining
    /\ \A j \in DOMAIN toks : j < i => toks[j].remaining < toks[i].remaining

\* The steps of thread w in get_token: it returns at once, goes to sleep, or
\* returns after the sleep.
InGetToken(w) == pc[w] \in {"gql_token", "rest_token"}
Sleeping(w) == pc[w] \in {"gql_sleep", "rest_sleep"}
Requesting(w) == pc[w] \in {"gql_post", "rest_get"}

\* C17: when some token has quota left once the expired ones are refreshed,
\* get_token returns the token with the largest remaining quota, the first
\* listed on ties, and does not sleep; when none has, it sleeps until the
\* smallest reset time of all tokens has passed, sets every token's quota to
\* the default and returns the token that the same rule then selects.
C17_AcquireSelection ==
    [][\A w \in Threads :
          LET toks == Refresh(tokens, now)
              some == \E i \in TokenIds : toks[i].remaining > 0
          IN  /\ InGetToken(w) /\ Requesting(w)' =>
                     /\ some
                     /\ \E i \in DOMAIN toks :
                            toks[i].token = tok'[w] /\ HighestFirst(toks, i)
                     /\ tokens' = toks
              /\ InGetToken(w) /\ Sleeping(w)' =>
                     /\ ~some
                     /\ \E i \in TokenIds :
                            /\ \A j \in TokenIds : toks[i].reset_at <= toks[j].reset_at
                            /\ wake'[w] = toks[i].reset_at + 1
              /\ Sleeping(w) /\ Requesting(w)' =>
                     /\ \E i \in TokenIds : now >= tokens[i].reset_at
                     /\ \A i \in TokenIds : tokens'[i].remaining = DefaultQuota
                     /\ \A i \in TokenIds : tokens'[i].reset_at = tokens[i].reset_at
                     /\ \A i \in TokenIds : tokens'[i].token = tokens[i].token
                     /\ \E i \in DOMAIN tokens :
                            tokens[i].token = tok'[w] /\ HighestFirst(tokens', i)
      ]_vars

C17_Witness ==
    \E w \in Threads :
        /\ grant[w].slept
        /\ grant[w].had = 0
        /\ tokens[2].reset_at > 0
        /\ tokens[2].remaining = DefaultQuota

\* A secret that is not one of the rotator's tokens.
UnknownToken == 0

\* C18: update_limits changes only the named token's remaining quota and
\* reset time and leaves every other token as it was; on a response without
\* the remaining-quota header, or for a secret that is not in the pool, the
\* whole pool is unchanged. Checked on the function in every pool state
\* reached, and on every step in which a thread's request is answered.
C18_ReportFrame ==
    /\ [](\A r \in PoolResponses("repo"), t \in TokenIds \cup {UnknownToken} :
             LET new == update_limits(tokens, t, r)
             IN  /\ DOMAIN new = DOMAIN tokens
                 /\ \A i \in DOMAIN tokens : tokens[i].token # t => new[i] = tokens[i]
                 /\ ~r.has_remaining \/ t = UnknownToken => new = tokens
                 /\ r.has_remaining /\ t \in TokenIds =>
                        \E i \in DOMAIN tokens :
                            /\ new[i].token = t
                            /\ new[i].remaining = r.remaining
                            /\ new[i].reset_at =
                                   IF r.has_reset THEN r.reset ELSE tokens[i].reset_at)
    /\ [][\A w \in Threads :
             Requesting(w) /\ pc'[w] # pc[w] =>
                 \A i \in DOMAIN tokens :
                     tokens[i].token # tok[w] => tokens'[i] = tokens[i]]_vars

C18_Witness ==
    /\ tokens[1] = TokenState(1, 0, 2)
    /\ tokens[2] = TokenState(2, DefaultQuota, 0)
    /\ \E w \in Threads : InGetToken(w) /\ tok[w] = 1

\* C19: on every attempt whose response carries the quota header, of the
\* GraphQL call and of the contributors fetch alike, and whether the attempt
\* returns or ends in a retry, the rotator holds the reported quota for the
\* token used when the attempt is over.
C19_QuotaReported ==
    [][\A w \in Threads :
          /\ \A r \in GqlResponses :
                 r.has_remaining /\ GqlRespond(w, r) =>
                     \E i \in DOMAIN tokens' :
                         tokens'[i].token = tok[w] /\ tokens'[i].remaining = r.remaining
          /\ \A r \in RestResponses :
                 r.has_remaining /\ RestRespond(w, r) =>
                     \E i \in DOMAIN tokens' :
                         tokens'[i].token = tok[w] /\ tokens'[i].remaining = r.remaining
      ]_vars

\* C20: a response with status 429, 500, 502, 503 or 504 uses up one attempt:
\* before the sixth attempt the call goes on to its next attempt, on the sixth
\* the call ends in failure (the future ends in an exception; the contributors
\* fetch ends with no rows); no call makes more than six attempts.
C20_RetryableConsumesAttempt ==
    /\ [](\A w \in Threads : attempt[w] <= MaxAttempts)
    /\ [][\A w \in Threads :
             /\ \A r \in GqlResponses :
                    r.status \in RetryableStatus /\ GqlRespond(w, r) =>
                        IF attempt[w] < MaxAttempts
                        THEN /\ attempt'[w] = attempt[w] + 1
                             /\ pc'[w] = "gql_token"
                             /\ cur'[w] = cur[w]
                        ELSE fut'[cur[w]] = "exception"
             /\ \A r \in RestResponses :
                    r.status \in RetryableStatus /\ RestRespond(w, r) =>
                        IF attempt[w] < MaxAttempts
                        THEN /\ attempt'[w] = attempt[w] + 1
                             /\ pc'[w] = "rest_get"
                             /\ cur'[w] = cur[w]
                        ELSE /\ pc'[w] = "append"
                             /\ rec'[w].contribs = <<>>
         ]_vars

C20_Witness ==
    \E w \in Threads :
        /\ pc[w] = "rest_get"
        /\ attempt[w] = MaxAttempts
        /\ Len(delays[w]) = MaxAttempts - 1
        /\ \A i \in DOMAIN delays[w] : delays[w][i].slept = 0

\* A status that is neither a success nor one the call layer names as retryable.
FatalStatus(status) == ~Is2xx(status) /\ status # 403 /\ status \notin RetryableStatus

\* C21: a response with a non-2xx status other than 403, 429, 500, 502, 503
\* and 504 ends the call on that attempt: the GraphQL call ends in its failure
\* and the contributors fetch ends with no rows, with no further attempt.
C21_FatalNotRetried ==
    [][\A w \in Threads :
          /\ \A r \in GqlResponses :
                 FatalStatus(r.status) /\ GqlRespond(w, r) => fut'[cur[w]] = "exception"
          /\ \A r \in RestResponses :
                 FatalStatus(r.status) /\ RestRespond(w, r) => pc'[w] = "append"
      ]_vars

\* C22: a 2xx GraphQL response whose errors hold no rate-limit message (not
\* found, or any other error) is returned to collect_one_repo on that attempt,
\* whatever the attempt's number: no further attempt is made, and the caller
\* goes on to record the error.
C22_ErrorsReturned ==
    [][\A w \in Threads :
          \A r \in GqlResponses :
              Is2xx(r.status) /\ r.body \in {"not_found", "errors"} /\ GqlRespond(w, r) =>
                  /\ pc'[w] = "append"
                  /\ attempt'[w] = 1
                  /\ delays'[w] = <<>>
                  /\ rec'[w] = ErrorRecord(cur[w], IF r.body = "errors" THEN "errors"
                                                   ELSE "repository not found")
                  /\ fut'[cur[w]] = "running"
      ]_vars

C22_Witness ==
    \E w \in Threads :
        /\ pc[w] = "append"
        /\ cur[w] # 0
        /\ rec[w] = ErrorRecord(cur[w], "repository not found")

\* C23: a 2xx GraphQL response whose errors hold a message with "rate limit"
\* in any letter case is never returned to the caller: the attempt sleeps the
\* 30 s cooldown and fails, which uses up one attempt; before the sixth
\* attempt the call goes on to the next one, on the sixth it ends in failure.
C23_RateLimitRetried ==
    [][\A w \in Threads :
          \A r \in GqlResponses :
              /\ Is2xx(r.status)
              /\ r.body \in {"rate_limit", "RATE_LIMIT"}
              /\ GqlRespond(w, r)
              => /\ rec'[w] = rec[w]
                 /\ IF attempt[w] < MaxAttempts
                    THEN /\ attempt'[w] = attempt[w] + 1
                         /\ pc'[w] = "gql_token"
                         /\ delays'[w][Len(delays'[w])].slept = RateLimitCooldown
                    ELSE fut'[cur[w]] = "exception"
      ]_vars

C23_Witness ==
    \E w \in Threads :
        /\ attempt[w] = MaxAttempts
        /\ pc[w] = "gql_post"
        /\ \A i \in DOMAIN delays[w] : delays[w][i].slept = RateLimitCooldown

\* An append of this run has failed.
AppendFailed ==
    /\ phase = "collect"
    /\ \E u \in Units : futval[u] = [repo_full_name |-> u, error |-> "append failed"]

\* C24: once an append to the checkpoint has failed, the run stops: no thread
\* takes another repository, and the run does not go on to its normal end.
C24_StopsOnAppendFailure ==
    [][AppendFailed =>
          /\ \A w \in Threads : pc[w] = "idle" => pc'[w] = "idle"
          /\ phase' # "done"
      ]_vars

\* The file ends in text that is not a whole record: a record cut short,
\* alone or after other text.
PartialTail == tail # <<>> /\ ~tail[Len(tail)].whole

\* The terminated lines that are one whole record each, in file order.
WholeLines == SelectSeq(file, LAMBDA l : Len(l) = 1 /\ l[1].whole)

\* C25: when the file's last line is a record cut short, load_checkpoint and
\* load_checkpoint_data skip that line and return every well-formed record
\* before it, in order; the load returns a result.
C25_PartialTailSkipped ==
    PartialTail =>
        /\ load_checkpoint_data(file, tail) = [i \in 1..Len(WholeLines) |-> WholeLines[i][1].rec]
        /\ load_checkpoint(file, tail) =
               {WholeLines[i][1].rec.repo_full_name : i \in 1..Len(WholeLines)}

C25_Witness ==
    /\ PartialTail
    /\ Len(WholeLines) >= 1
    /\ phase = "collect"
    /\ runNo >= 2
    /\ done = {WholeLines[i][1].rec.repo_full_name : i \in 1..Len(WholeLines)}
    /\ Len(remaining) = 1

\* Everything main prints about the run: the line at its start (total, already
\* done, remaining) and, after the rebuild, the row count of each table it
\* wrote.
RunReport ==
    LET t == TablesOf(file, tail)
        names == {"total", "already_done", "remaining", "github_repo_meta"}
                 \cup (IF t[2] # <<>> THEN {"github_prs"} ELSE {})
                 \cup (IF t[3] # <<>> THEN {"github_bug_issues"} ELSE {})
                 \cup (IF t[4] # <<>> THEN {"github_contributors"} ELSE {})
    IN  [k \in names |->
            CASE k = "total" -> Len(master)
              [] k = "already_done" -> Cardinality(done)
              [] k = "remaining" -> Len(remaining)
              [] k = "github_repo_meta" -> Len(t[1])
              [] k = "github_prs" -> Len(t[2])
              [] k = "github_bug_issues" -> Len(t[3])
              [] OTHER -> Len(t[4])]

\* The repositories of this run whose collect_one_repo ended in the given way.
EndedAs(kind) ==
    {u \in Range(remaining) :
        /\ fut[u] = "consumed"
        /\ CASE kind = "done" -> "archived" \in DOMAIN futval[u]
             [] kind = "skipped" -> ~Truthy(futval[u])
             [] OTHER -> "error" \in DOMAIN futval[u]}

\* C27: when a run ends, what it reported holds a count of the repositories
\* done, skipped, errored and remaining, each equal to the number of
\* repositories that ended that way.
C27_SummaryCounts ==
    phase = "done" =>
        /\ {"done", "skipped", "errored", "remaining"} \subseteq DOMAIN RunReport
        /\ RunReport["done"] = Cardinality(EndedAs("done"))
        /\ RunReport["skipped"] = Cardinality(EndedAs("skipped"))
        /\ RunReport["errored"] = Cardinality(EndedAs("errored"))
        /\ RunReport["remaining"] =
               Cardinality(Range(master) \ load_checkpoint(file, tail))

\* Thread w is in collect_one_repo before its append_checkpoint call.
BeforeAppend(w) ==
    pc[w] \in {"gql_token", "gql_sleep", "gql_post", "rest_token", "rest_sleep", "rest_get"}

\* C28: a repository is processed in the order call, extraction, checkpoint.
\* A thread reaches append_checkpoint only from a call that has returned, with
\* the record extracted for its repository; the log grows only by that record;
\* and while a repository's calls are still going on the log holds no record
\* for it.
C28_CallExtractCheckpoint ==
    /\ [](\A w \in Threads :
             BeforeAppend(w) =>
                 ~\E x \in Parsed : "repo_full_name" \in DOMAIN x /\ x.repo_full_name = cur[w])
    /\ [][\A w \in Threads :
             /\ pc[w] # "append" /\ pc'[w] = "append" =>
                    /\ pc[w] \in {"gql_post", "rest_get"}
                    /\ "repo_full_name" \in DOMAIN rec'[w]
                    /\ rec'[w].repo_full_name = cur[w]
             /\ pc[w] = "writing" /\ file' # file =>
                    /\ file' = WriteLine(file, tail, rec[w])
                    /\ rec[w].repo_full_name = cur[w]
         ]_vars

C28_Witness ==
    /\ runNo = 2
    /\ \E w \in Threads :
           /\ pc[w] = "rest_get"
           /\ \E p \in AllPieces : p.rec.repo_full_name = cur[w]
    /\ Len(file) >= 1

\* The records append_checkpoint wrote completely, newline included: each
\* terminated line ends with one.
Appended == {file[i][Len(file[i])].rec : i \in DOMAIN file}

\* C30: every record that an append_checkpoint call wrote completely is
\* returned by load_checkpoint_data, and its repository by load_checkpoint,
\* whatever an earlier crash left at the end of the file.
C30_AppendedRecordsLoad ==
    \A x \in Appended :
        /\ x \in Parsed
        /\ x.repo_full_name \in load_checkpoint(file, tail)

\* The duration between two timestamps in the given unit, or nothing.
DurationOf(a, b, unit) ==
    IF Len(a) = 1 /\ Len(b) = 1 THEN <<[num |-> b[1] - a[1], den |-> unit]>> ELSE <<>>

\* C29: in every row written to the log and to the tables, each derived
\* duration (mttr_days of a bug issue, latency_first_review_hours and
\* latency_merge_hours of a pull request) is null exactly when one of its two
\* timestamps is missing, and is their difference in the field's unit
\* otherwise.
C29_DerivedDurations ==
    /\ \A x \in Parsed :
           "meta" \in DOMAIN x =>
               /\ \A i \in DOMAIN x.prs :
                      /\ "latency_merge_hours" \in DOMAIN x.prs[i]
                      /\ "latency_first_review_hours" \in DOMAIN x.prs[i]
               /\ Range(x.prs) \subseteq Range(out_prs) \/ phase # "done"
    /\ \A row \in Range(out_prs) \cup UNION {Range(x.prs) : x \in {y \in Parsed : "meta" \in DOMAIN y}} :
           /\ row.latency_first_review_hours = <<>>
                  <=> (row.pr_created_at = <<>> \/ row.first_review_at = <<>>)
           /\ row.latency_first_review_hours =
                  DurationOf(row.pr_created_at, row.first_review_at, 3600)
           /\ row.latency_merge_hours = <<>>
                  <=> (row.pr_created_at = <<>> \/ row.pr_merged_at = <<>>)
           /\ row.latency_merge_hours = DurationOf(row.pr_created_at, row.pr_merged_at, 3600)
    /\ \A row \in Range(out_bugs) \cup UNION {Range(x.bugs) : x \in {y \in Parsed : "meta" \in DOMAIN y}} :
           /\ row.mttr_days = <<>> <=> (row.created_at = <<>> \/ row.closed_at = <<>>)
           /\ row.mttr_days = DurationOf(row.created_at, row.closed_at, 86400)

C29_Witness ==
    /\ phase = "done"
    /\ \E row \in Range(out_prs) :
           /\ row.latency_merge_hours = <<>>
           /\ row.latency_first_review_hours = <<[num |-> 1, den |-> 3600]>>
    /\ \E row \in Range(out_bugs) : row.mttr_days = <<[num |-> 0 - 1, den |-> 86400]>>

\* The secrets of the rotator's tokens, in list order.
PoolSecrets(toks) == [i \in DOMAIN toks |-> toks[i].token]

\* C26: with no GITHUB_TOKEN_PAT* name set the rotator's construction fails:
\* there is no pool and no thread ever gets a token. With at least one set,
\* the pool holds exactly the secrets of the names that are set, and this
\* membership never changes while the process lives.
C26_PoolMembership ==
    /\ [](/\ ConfiguredSecrets = <<>> =>
                 /\ phase \in {"init", "failed"}
                 /\ tokens = <<>>
                 /\ \A w \in Threads : pc[w] = "idle" /\ tok[w] = 0
          /\ phase = "failed" => ConfiguredSecrets = <<>>
          /\ phase \in {"collect", "done"} =>
                 /\ ConfiguredSecrets # <<>>
                 /\ PoolSecrets(tokens) = ConfiguredSecrets
          /\ \A w \in Threads :
                 tok[w] # 0 => \E i \in DOMAIN tokens : tokens[i].token = tok[w])
    /\ [][phase = "collect" /\ phase' \in {"collect", "done"} =>
             PoolSecrets(tokens') = PoolSecrets(tokens)]_vars

C26_Witness ==
    /\ phase = "failed"
    /\ runNo = 2
    /\ tokens = <<>>
    /\ file = <<>>

\* C33: however the calls of get_token_rotator by the threads of a process
\* interleave, at most one TokenRotator is constructed, the global never
\* changes once it is set, and every call that returns returns that instance.
C33_OneRotator ==
    /\ [](/\ built <= 1
          /\ rotator = built
          /\ \A c \in Callers :
                 /\ spc[c] = "returned" => got[c] = rotator /\ rotator # 0
                 /\ got[c] # 0 => got[c] = rotator
                 /\ spc[c] = "raised" => ConfiguredSecrets = <<>> /\ rotator = 0)
    /\ [][rotator # 0 => rotator' = rotator /\ built' = built]_vars

\* A caller that saw None outside the lock holds the lock after another
\* caller has constructed the instance, while a third has it returned.
C33_Witness ==
    /\ rotator = 1
    /\ \E c, d \in Callers :
           /\ spc[c] = "locked"
           /\ rotator_lock = c
           /\ spc[d] = "returned"
           /\ got[d] = 1

\* The locks a thread holds.
Holds(c) ==
    {l \in {"pool", "checkpoint", "singleton"} :
        \/ l = "pool" /\ rotLock = c
        \/ l = "checkpoint" /\ ckptLock = c
        \/ l = "singleton" /\ rotator_lock = c}

\* The thread is at a statement that acquires a lock.
AtLock(w) == pc[w] \in {"gql_token", "rest_token", "append"}

\* A step of some thread of the process, the clock's apart.
ThreadStep ==
    \/ \E w \in Threads :
           \/ PickUnit(w) \/ GetToken(w) \/ GetTokenSleep(w) \/ GetTokenWake(w)
           \/ PoolGql(w) \/ PoolRest(w) \/ AppendLock(w) \/ AppendWrite(w)
    \/ \E u \in Units : MainConsume(u)
    \/ MainRebuild

\* C31: no thread holds two of the rotator's lock, the checkpoint lock and
\* the singleton's lock at once, a thread that holds a lock is never waiting
\* for another one (the writer can write, the sleeper only waits for its
\* time), and so while the collection runs some thread can take a step or a
\* thread is asleep with its time still to come.
C31_NoNestedLocks ==
    /\ \A c \in Callers : Cardinality(Holds(c)) <= 1
    /\ \A w \in Threads :
           /\ Holds(w) # {} => ~AtLock(w)
           /\ ckptLock = w => pc[w] = "writing" /\ ENABLED AppendWrite(w)
           /\ rotLock = w => Sleeping(w) /\ (now >= wake[w] => ENABLED GetTokenWake(w))
    /\ phase = "collect" => (ENABLED ThreadStep) \/ \E w \in Threads : Sleeping(w) /\ now < wake[w]

\* One thread sleeps in get_token with the rotator's lock while another
\* writes with the checkpoint lock.
C31_Witness ==
    \E w, v \in Threads :
        /\ w # v
        /\ rotLock = w
        /\ ckptLock = v
        /\ pc[v] = "writing"

\* The threads whose request is in flight with a token handed to them since
\* the token's quota was last reported.
HandedSinceReport(secret) == {w \in Threads : grant[w].token = secret /\ grant[w].fresh}

\* C32: the calls in flight with one token, handed out since the last report
\* of its quota, are never more than the quota the rotator has recorded for it.
C32_HandoutsWithinQuota ==
    \A i \in DOMAIN tokens :
        Cardinality(HandedSinceReport(tokens[i].token)) <= tokens[i].remaining

\* The Done record of a repository whose contributors could not be fetched.
DoneWithoutContributors(u) ==
    [repo_full_name |-> u,
     meta |-> extract_repo_meta("repo", u),
     prs |-> latency_fields(extract_pull_requests("repo", u)),
     bugs |-> extract_bug_issues("repo", u),
     contribs |-> <<>>]

\* C34: when the contributors fetch fails on every attempt the repository
\* does not fail: its future never ends in an exception, and it ends with the
\* Done record in the log, holding the metadata, the PR and bug rows and no
\* contributors; the step in which the last attempt fails takes the thread to
\* the append with exactly that record.
C34_ContributorsFailureIsolated ==
    /\ [](\A u \in Units :
             scen[u] = "ok_norest" =>
                 /\ fut[u] # "exception"
                 /\ Ended(u) =>
                        /\ DoneWithoutContributors(u) \in Parsed
                        /\ \A x \in Parsed :
                               x.repo_full_name = u => x = DoneWithoutContributors(u)
                 /\ fut[u] = "result" => futval[u] = extract_repo_meta("repo", u))
    /\ [][\A w \in Threads :
             /\ pc[w] = "rest_get"
             /\ attempt[w] = MaxAttempts
             /\ GetAttempt(RestOf(scen[cur[w]])).raises
             /\ pc'[w] # "rest_get"
             => /\ pc'[w] = "append"
                /\ cur'[w] = cur[w]
                /\ rec'[w] = DoneWithoutContributors(cur[w])
                /\ fut' = fut
      ]_vars

\* A run has ended in which the contributors fetch of a repository failed and
\* its rows other than contributors are in the tables.
C34_Witness ==
    /\ phase = "done"
    /\ \E u \in Units :
           /\ scen[u] = "ok_norest"
           /\ fut[u] = "consumed"
           /\ DoneWithoutContributors(u) \in Parsed
           /\ extract_repo_meta("repo", u) \in Range(out_meta)
           /\ out_prs # <<>>
           /\ \A i \in DOMAIN out_contribs : out_contribs[i].repo_full_name # u

\* The kinds of record in the log.
IsErrored(x) == "error" \in DOMAIN x /\ "meta" \notin DOMAIN x
IsDone(x) == "meta" \in DOMAIN x

\* How many times v occurs in the sequence q.
Count(q, v) == Cardinality({i \in DOMAIN q : q[i] = v})

\* The child rows of the Done records of a log, counted.
RECURSIVE ChildCount(_, _, _)
ChildCount(recs, key, i) ==
    IF i > Len(recs) THEN 0
    ELSE (IF IsDone(recs[i])
          THEN Len(CASE key = "prs" -> recs[i].prs
                     [] key = "bugs" -> recs[i].bugs
                     [] OTHER -> recs[i].contribs)
          ELSE 0) + ChildCount(recs, key, i + 1)

\* The rows of table rows come from the Done records of recs only, each row of
\* each Done record once.
ChildrenOfDone(rows, recs, key) ==
    /\ Len(rows) = ChildCount(recs, key, 1)
    /\ \A i \in DOMAIN recs :
           IsDone(recs[i]) => Range(ChildRows(recs[i], key)) \subseteq Range(rows)
    /\ \A j \in DOMAIN rows :
           \E i \in DOMAIN recs :
               IsDone(recs[i]) /\ rows[j] \in Range(ChildRows(recs[i], key))

\* C35: when a run has rebuilt its output, the metadata table holds one row
\* for every Errored record of the log (the repository and the error) and
\* one for every Done record (its metadata) and nothing else, and the PR, bug
\* and contributor rows the rebuild computes are the rows of the Done records,
\* each once: an Errored record (and a Skipped one) adds no child row.
C35_RowsPerRecord ==
    phase = "done" =>
        LET recs == load_checkpoint_data(file, tail)
            tables == TablesOf(file, tail)
        IN  /\ out_meta = tables[1]
            /\ Len(out_meta) = Cardinality({i \in DOMAIN recs : IsErrored(recs[i]) \/ IsDone(recs[i])})
            /\ \A i \in DOMAIN recs :
                   /\ IsErrored(recs[i]) =>
                          Count(out_meta, [repo_full_name |-> recs[i].repo_full_name,
                                           error |-> recs[i].error])
                              = Count(recs, recs[i])
                   /\ IsDone(recs[i]) =>
                          Count(out_meta, recs[i].meta)
                              = Cardinality({j \in DOMAIN recs :
                                                IsDone(recs[j]) /\ recs[j].meta = recs[i].meta})
            /\ ChildrenOfDone(tables[2], recs, "prs")
            /\ ChildrenOfDone(tables[3], recs, "bugs")
            /\ ChildrenOfDone(tables[4], recs, "contribs")
            /\ tables[2] # <<>> => out_prs = tables[2]
            /\ tables[3] # <<>> => out_bugs = tables[3]
            /\ tables[4] # <<>> => out_contribs = tables[4]

\* A run has rebuilt a log with an Errored and a Done record.
C35_Witness ==
    /\ phase = "done"
    /\ \E x, y \in Parsed : IsErrored(x) /\ IsDone(y)
    /\ Len(out_meta) = 2
    /\ Len(out_prs) = 1
    /\ out_contribs # <<>>

\* C36: a run's collection ends: every repository of the run gets to the end
\* of its future and is consumed, and the rebuild is reached, also when
\* threads had to sleep in get_token because every token was spent.
C36_RunTerminates ==
    /\ (phase = "collect") ~> (phase = "done" /\ \A u \in Range(remaining) : fut[u] = "consumed")
    /\ \A u \in Units : (fut[u] \in {"pending", "running"}) ~> Ended(u)
    /\ \A w \in Threads : Sleeping(w) ~> (phase = "done")

\* The run is over, and in it a thread slept in get_token.
C36_Witness ==
    /\ phase = "done"
    /\ \A u \in Units : fut[u] = "consumed"
    /\ \E w \in Threads : wake[w] > 0

====
